---- MODULE Spec2Model ----
(***************************************************************************)
(* State-machine model of src/script.js: the contiguous-memory allocation  *)
(* simulator (block store, process queue, fit algorithms, deallocation,    *)
(* merging, compaction, retry sweep, auto-run, pause/resume).              *)
(*                                                                         *)
(* Conventions.  Array indices are 1-based here (script.js is 0-based), so *)
(* "not found" (-1 in script.js) is 0.  null is 0 for processId and        *)
(* allocatedAt; undefined is -1 for elapsedBeforePause.                    *)
(* Rendering, status text and toasts are not modelled.  The write-only     *)
(* fields block.address, block.isNew, block.isDeallocating and             *)
(* process.blockIndex are left out: no branch of script.js reads them;     *)
(* pauseStartTime is read only inside pauseSimulation, right after it is   *)
(* written, and is a local value of that handler here.                     *)
(*                                                                         *)
(* Time.  script.js reads the clock only in differences now - allocatedAt  *)
(* and in the truthiness of allocatedAt, so states that differ by a shift  *)
(* of every time stamp behave alike.  One state stands for each such       *)
(* class: the one in which Date.now() is Now.  When time passes (Tick)     *)
(* every stored allocatedAt therefore moves TickMs into the past.  Elapsed *)
(* times above MaxAge are recorded as MaxAge; MaxAge is at least the       *)
(* lifetime, the only value script.js compares an elapsed time with.       *)
(*                                                                         *)
(* Object identity.  The deallocation timeout (script.js 476-500) captures *)
(* the block OBJECT and the process OBJECT, not their indices.  A block    *)
(* carries the tag oid: 0 while no pending timeout references it, else a   *)
(* number shared with the timeouts that captured it.  A timeout whose      *)
(* block object has left memoryBlocks, or whose process object has left    *)
(* processQueue, has blk = 0, respectively proc = 0: its writes reach an   *)
(* object the program no longer reads.                                     *)
(*                                                                         *)
(* Timers.  Timeouts of one delay fire in creation order, so each delay    *)
(* class is a FIFO: deallocTimers (400 ms), retryAllocTimers (300 ms) and  *)
(* the counter retryTimers (500 ms, every callback is the same call).      *)
(* Across classes, and against the intervals and the user's commands, any  *)
(* order is allowed.                                                       *)
(***************************************************************************)
EXTENDS Integers, Sequences, FiniteSets, TLC

VARIABLES
    memoryBlocks,         \* script.js 2
    processQueue,         \* script.js 3
    isAutoRunning,        \* script.js 4
    isPaused,             \* script.js 5
    isRetrying,           \* script.js 7
    autoRunInterval,      \* script.js 8: TRUE while the interval whose id it holds is live
    deallocationInterval, \* script.js 9: TRUE while the lifetime checker is live
    currentAlgorithm,     \* script.js 10
    configDirty,          \* script.js 11
    resetAlertShown,      \* script.js 12
    orphanInterval,       \* TRUE once a live auto-run interval's id has been overwritten
    deallocTimers,        \* pending setTimeout(..., 400) of deallocateBlock
    retryAllocTimers,     \* pending setTimeout(..., 300) of retryFailedProcesses
    retryTimers,          \* number of pending setTimeout(retryFailedProcesses, 500)
    config,               \* the input values read by the last resetSimulation
    fn                    \* input and result of one function application (SpecFn only)

vars == << memoryBlocks, processQueue, isAutoRunning, isPaused, isRetrying,
           autoRunInterval, deallocationInterval, currentAlgorithm,
           configDirty, resetAlertShown, orphanInterval, deallocTimers,
           retryAllocTimers, retryTimers, config, fn >>

----------------------------------------------------------------------------
(* Program constants and bounds *)

PROCESS_LIFETIME_MS == 5000

\* The clock advances in steps of one lifetime.
TickMs == PROCESS_LIFETIME_MS

\* Elapsed times are recorded up to MaxAgeTicks clock steps.
MaxAgeTicks == 1

MaxAge == MaxAgeTicks * TickMs

\* Date.now() in the state that stands for its class.
Now == MaxAge + TickMs

\* Caps on the pending timeouts of each delay class.
MaxDeallocTimers == 2

MaxRetryAllocTimers == 1

MaxRetryTimers == 1

\* SpecFn: longest block sequence and largest size drawn as input.
FnMaxLen == 3

FnMaxSize == 3

Algorithms == {"first-fit", "best-fit", "worst-fit"}

----------------------------------------------------------------------------
(* Blocks and processes *)

MemoryBlock(size) ==
    [size |-> size, isAllocated |-> FALSE, processId |-> 0, oid |-> 0]

Process(id, size) ==
    [id |-> id, size |-> size, status |-> "waiting", allocatedAt |-> 0,
     elapsedBeforePause |-> -1]

RECURSIVE SumSeq(_)
SumSeq(s) == IF s = << >> THEN 0 ELSE Head(s) + SumSeq(Tail(s))

Sizes(blocks) == [i \in 1..Len(blocks) |-> blocks[i].size]

IsFree(b) == ~b.isAllocated

FreeOf(blocks) == SelectSeq(blocks, IsFree)

IsAlloc(b) == b.isAllocated

AllocatedOf(blocks) == SelectSeq(blocks, IsAlloc)

Min(S) == CHOOSE x \in S : \A y \in S : x <= y

----------------------------------------------------------------------------
(* Fit algorithms: the search of stepSimulation, repeated verbatim in      *)
(* retryFailedProcesses (script.js 560-587).                               *)

Qualifies(b, size) == ~b.isAllocated /\ b.size >= size

\* Mutant of FirstFit: the last fitting block instead of the first.
FirstFitLast(blocks, size) ==
    LET hits == {i \in 1..Len(blocks) : Qualifies(blocks[i], size)}
    IN  IF hits = {} THEN 0 ELSE CHOOSE x \in hits : \A y \in hits : x >= y

\* memoryBlocks.findIndex(b => !b.isAllocated && b.size >= process.size)
FirstFit(blocks, size) ==
    LET hits == {i \in 1..Len(blocks) : Qualifies(blocks[i], size)}
    IN  IF hits = {} THEN 0 ELSE Min(hits)

\* Mutant of BestFitScan: diff <= bestDiff, so a later block wins a tie.
RECURSIVE BestFitScanLastOnTie(_, _, _, _, _)
BestFitScanLastOnTie(blocks, size, idx, bestDiff, blockIndex) ==
    IF idx > Len(blocks) THEN blockIndex
    ELSE IF Qualifies(blocks[idx], size)
            /\ (blockIndex = 0 \/ blocks[idx].size - size <= bestDiff)
         THEN BestFitScanLastOnTie(blocks, size, idx + 1,
                                   blocks[idx].size - size, idx)
         ELSE BestFitScanLastOnTie(blocks, size, idx + 1, bestDiff, blockIndex)

\* bestDiff starts at Infinity, so the first qualifying block always wins;
\* blockIndex = 0 holds exactly while bestDiff is still Infinity.
RECURSIVE BestFitScan(_, _, _, _, _)
BestFitScan(blocks, size, idx, bestDiff, blockIndex) ==
    IF idx > Len(blocks) THEN blockIndex
    ELSE IF Qualifies(blocks[idx], size)
            /\ (blockIndex = 0 \/ blocks[idx].size - size < bestDiff)
         THEN BestFitScan(blocks, size, idx + 1, blocks[idx].size - size, idx)
         ELSE BestFitScan(blocks, size, idx + 1, bestDiff, blockIndex)

\* Mutant of WorstFitScan: the scan behaves as if maxDiff started at 0, so a
\* block of exactly the request's size is never taken.
RECURSIVE WorstFitScanFromZero(_, _, _, _, _)
WorstFitScanFromZero(blocks, size, idx, maxDiff, blockIndex) ==
    IF idx > Len(blocks) THEN blockIndex
    ELSE IF /\ Qualifies(blocks[idx], size)
            /\ blocks[idx].size - size > maxDiff
            /\ blocks[idx].size - size > 0
         THEN WorstFitScanFromZero(blocks, size, idx + 1,
                                   blocks[idx].size - size, idx)
         ELSE WorstFitScanFromZero(blocks, size, idx + 1, maxDiff, blockIndex)

RECURSIVE WorstFitScan(_, _, _, _, _)
WorstFitScan(blocks, size, idx, maxDiff, blockIndex) ==
    IF idx > Len(blocks) THEN blockIndex
    ELSE IF Qualifies(blocks[idx], size) /\ blocks[idx].size - size > maxDiff
         THEN WorstFitScan(blocks, size, idx + 1, blocks[idx].size - size, idx)
         ELSE WorstFitScan(blocks, size, idx + 1, maxDiff, blockIndex)

FindFit(alg, blocks, size) ==
    IF alg = "first-fit" THEN FirstFit(blocks, size)
    ELSE IF alg = "best-fit" THEN BestFitScan(blocks, size, 1, 0, 0)
    ELSE IF alg = "worst-fit" THEN WorstFitScan(blocks, size, 1, -1, 0)
    ELSE 0

----------------------------------------------------------------------------
(* Block-store operations *)

InsertAt(s, i, e) == SubSeq(s, 1, i - 1) \o << e >> \o SubSeq(s, i, Len(s))

RemoveAt(s, i) == SubSeq(s, 1, i - 1) \o SubSeq(s, i + 1, Len(s))

\* Mutant of AllocateBlocks: the remainder of a split is not inserted.
AllocateBlocksDropRemainder(blocks, blockIndex, process) ==
    [blocks EXCEPT ![blockIndex] =
        [@ EXCEPT !.size = IF @ > process.size THEN process.size ELSE @,
                  !.isAllocated = TRUE, !.processId = process.id]]

\* Mutant of AllocateBlocks: the remainder of a split is inserted before
\* the allocated part.
AllocateBlocksRemainderFirst(blocks, blockIndex, process) ==
    LET block == blocks[blockIndex]
    IN  IF block.size > process.size
        THEN InsertAt([blocks EXCEPT ![blockIndex] =
                           [@ EXCEPT !.size = process.size,
                                     !.isAllocated = TRUE,
                                     !.processId = process.id]],
                      blockIndex,
                      MemoryBlock(block.size - process.size))
        ELSE [blocks EXCEPT ![blockIndex] =
                  [@ EXCEPT !.isAllocated = TRUE, !.processId = process.id]]

\* The block part of allocate: split when the block is larger than the
\* request, else mark it in place (also when it is smaller).
AllocateBlocks(blocks, blockIndex, process) ==
    LET block == blocks[blockIndex]
    IN  IF block.size > process.size
        THEN InsertAt([blocks EXCEPT ![blockIndex] =
                           [@ EXCEPT !.size = process.size,
                                     !.isAllocated = TRUE,
                                     !.processId = process.id]],
                      blockIndex + 1,
                      MemoryBlock(block.size - process.size))
        ELSE [blocks EXCEPT ![blockIndex] =
                  [@ EXCEPT !.isAllocated = TRUE, !.processId = process.id]]

\* Mutant of MergeFrom: i advances after a merge too.
RECURSIVE MergeFromAdvancing(_, _)
MergeFromAdvancing(blocks, i) ==
    IF i >= Len(blocks) THEN blocks
    ELSE IF ~blocks[i].isAllocated /\ ~blocks[i + 1].isAllocated
         THEN MergeFromAdvancing(
                  RemoveAt([blocks EXCEPT ![i].size = @ + blocks[i + 1].size],
                           i + 1), i + 1)
         ELSE MergeFromAdvancing(blocks, i + 1)

\* The while loop of mergeAdjacentFreeBlocks from position i.
RECURSIVE MergeFrom(_, _)
MergeFrom(blocks, i) ==
    IF i >= Len(blocks) THEN blocks
    ELSE IF ~blocks[i].isAllocated /\ ~blocks[i + 1].isAllocated
         THEN MergeFrom(RemoveAt([blocks EXCEPT ![i].size = @ + blocks[i + 1].size],
                                 i + 1), i)
         ELSE MergeFrom(blocks, i + 1)

\* Mutant of MergeAdjacentFreeBlocks: the loop stops after its first merge.
MergeFirstPairOnly(blocks) ==
    LET pairs == {i \in 1..(Len(blocks) - 1) :
                    ~blocks[i].isAllocated /\ ~blocks[i + 1].isAllocated}
    IN  IF pairs = {} THEN blocks
        ELSE RemoveAt([blocks EXCEPT
                          ![Min(pairs)].size = @ + blocks[Min(pairs) + 1].size],
                      Min(pairs) + 1)

MergeAdjacentFreeBlocks(blocks) == MergeFrom(blocks, 1)

\* Mutant of CompactBlocks: the free blocks move behind the allocated ones
\* and are not summed into one.
CompactBlocksKeepFree(blocks) == AllocatedOf(blocks) \o FreeOf(blocks)

\* The block part of compactMemory.
CompactBlocks(blocks) ==
    LET totalFreeSize == SumSeq(Sizes(FreeOf(blocks)))
    IN  AllocatedOf(blocks) \o
        (IF totalFreeSize > 0 THEN << MemoryBlock(totalFreeSize) >> ELSE << >>)

----------------------------------------------------------------------------
(* The program state as one record, so that a handler is a function from   *)
(* state to state and handlers compose as the calls in script.js do.       *)

S ==
    [memoryBlocks |-> memoryBlocks, processQueue |-> processQueue,
     isAutoRunning |-> isAutoRunning, isPaused |-> isPaused,
     isRetrying |-> isRetrying,
     autoRunInterval |-> autoRunInterval,
     deallocationInterval |-> deallocationInterval,
     currentAlgorithm |-> currentAlgorithm, configDirty |-> configDirty,
     resetAlertShown |-> resetAlertShown, orphanInterval |-> orphanInterval,
     deallocTimers |-> deallocTimers, retryAllocTimers |-> retryAllocTimers,
     retryTimers |-> retryTimers, config |-> config]

Install(s) ==
    /\ memoryBlocks' = s.memoryBlocks
    /\ processQueue' = s.processQueue
    /\ isAutoRunning' = s.isAutoRunning
    /\ isPaused' = s.isPaused
    /\ isRetrying' = s.isRetrying
    /\ autoRunInterval' = s.autoRunInterval
    /\ deallocationInterval' = s.deallocationInterval
    /\ currentAlgorithm' = s.currentAlgorithm
    /\ configDirty' = s.configDirty
    /\ resetAlertShown' = s.resetAlertShown
    /\ orphanInterval' = s.orphanInterval
    /\ deallocTimers' = s.deallocTimers
    /\ retryAllocTimers' = s.retryAllocTimers
    /\ retryTimers' = s.retryTimers
    /\ config' = s.config
    /\ UNCHANGED fn

\* The caps on pending timeouts.
Bounded(s) ==
    /\ Len(s.deallocTimers) <= MaxDeallocTimers
    /\ Len(s.retryAllocTimers) <= MaxRetryAllocTimers
    /\ s.retryTimers <= MaxRetryTimers

----------------------------------------------------------------------------
(* Object tags *)

OidsOf(blocks) == {blocks[i].oid : i \in 1..Len(blocks)} \ {0}

BlksOf(timers) == {timers[i].blk : i \in 1..Len(timers)} \ {0}

FreshOid(s) ==
    Min((1..(Len(s.memoryBlocks) + Len(s.deallocTimers) + 1))
        \ (OidsOf(s.memoryBlocks) \cup BlksOf(s.deallocTimers)))

\* Drops the references to objects that have left memoryBlocks, clears the
\* tag of blocks no timeout references, and renumbers the tags in the order
\* of the timeouts that hold them.  No program-visible field changes.
Normalize(s) ==
    LET live   == OidsOf(s.memoryBlocks)
        timers == [i \in 1..Len(s.deallocTimers) |->
                     IF s.deallocTimers[i].blk \in live THEN s.deallocTimers[i]
                     ELSE [s.deallocTimers[i] EXCEPT !.blk = 0]]
        refd   == BlksOf(timers)
        first(o) == Min({i \in 1..Len(timers) : timers[i].blk = o})
        rank(o) == Cardinality({p \in refd : first(p) <= first(o)})
    IN  [s EXCEPT
           !.deallocTimers = [i \in 1..Len(timers) |->
               IF timers[i].blk = 0 THEN timers[i]
               ELSE [timers[i] EXCEPT !.blk = rank(@)]],
           !.memoryBlocks = [i \in 1..Len(s.memoryBlocks) |->
               IF s.memoryBlocks[i].oid \in refd
               THEN [s.memoryBlocks[i] EXCEPT !.oid = rank(@)]
               ELSE [s.memoryBlocks[i] EXCEPT !.oid = 0]]]

\* processQueue is replaced: pending timeouts keep the old process objects.
DropProcessRefs(timers) ==
    [i \in 1..Len(timers) |-> [timers[i] EXCEPT !.proc = 0]]

----------------------------------------------------------------------------
(* Handlers *)

\* Variant: the last process with the status instead of the first.
FindIndexStatusLast(queue, st) ==
    LET hits == {i \in 1..Len(queue) : queue[i].status = st}
    IN  IF hits = {} THEN 0 ELSE CHOOSE i \in hits : \A j \in hits : j <= i

FindIndexStatus(queue, st) ==
    LET hits == {i \in 1..Len(queue) : queue[i].status = st}
    IN  IF hits = {} THEN 0 ELSE Min(hits)

FindIndexId(queue, id) ==
    LET hits == {i \in 1..Len(queue) : queue[i].id = id}
    IN  IF hits = {} THEN 0 ELSE Min(hits)

SomeStatus(queue, st) == \E i \in 1..Len(queue) : queue[i].status = st

StopDeallocationChecker(s) == [s EXCEPT !.deallocationInterval = FALSE]

StartDeallocationChecker(s) == [s EXCEPT !.deallocationInterval = TRUE]

\* clearInterval(autoRunInterval) ends the interval whose id the variable holds.
StopAutoRun(s) ==
    StopDeallocationChecker([s EXCEPT !.isAutoRunning = FALSE,
                                      !.autoRunInterval = FALSE])

ShowResetAlertOnce(s) == [s EXCEPT !.resetAlertShown = TRUE]

Allocate(s, blockIndex, processIndex) ==
    [s EXCEPT
       !.memoryBlocks = AllocateBlocks(@, blockIndex, s.processQueue[processIndex]),
       !.processQueue[processIndex] =
           [@ EXCEPT !.status = "allocated", !.allocatedAt = Now]]

\* A stepSimulation whose failure branch also ends the auto-run.
StepSimulationStopsOnFailure(s) ==
    IF s.configDirty /\ ~s.resetAlertShown THEN ShowResetAlertOnce(s)
    ELSE
    LET waitingIndex == FindIndexStatus(s.processQueue, "waiting")
        failedIndex  == FindIndexStatus(s.processQueue, "failed")
        processIndex == IF waitingIndex # 0 THEN waitingIndex ELSE failedIndex
        s1 == IF waitingIndex = 0 /\ failedIndex # 0
              THEN [s EXCEPT !.processQueue[failedIndex].status = "waiting"]
              ELSE s
    IN  IF processIndex = 0
        THEN IF SomeStatus(s.processQueue, "allocated") THEN s ELSE StopAutoRun(s)
        ELSE LET process    == s1.processQueue[processIndex]
                 blockIndex == FindFit(s1.currentAlgorithm, s1.memoryBlocks,
                                       process.size)
             IN  IF blockIndex # 0
                 THEN Allocate(s1, blockIndex, processIndex)
                 ELSE StopAutoRun(
                        [s1 EXCEPT !.processQueue[processIndex].status = "failed"])

StepSimulation(s) ==
    IF s.configDirty /\ ~s.resetAlertShown THEN ShowResetAlertOnce(s)
    ELSE
    LET waitingIndex == FindIndexStatus(s.processQueue, "waiting")
        failedIndex  == FindIndexStatus(s.processQueue, "failed")
        processIndex == IF waitingIndex # 0 THEN waitingIndex ELSE failedIndex
        s1 == IF waitingIndex = 0 /\ failedIndex # 0
              THEN [s EXCEPT !.processQueue[failedIndex].status = "waiting"]
              ELSE s
    IN  IF processIndex = 0
        THEN IF SomeStatus(s.processQueue, "allocated") THEN s ELSE StopAutoRun(s)
        ELSE LET process    == s1.processQueue[processIndex]
                 blockIndex == FindFit(s1.currentAlgorithm, s1.memoryBlocks,
                                       process.size)
             IN  IF blockIndex # 0
                 THEN Allocate(s1, blockIndex, processIndex)
                 ELSE [s1 EXCEPT !.processQueue[processIndex].status = "failed"]

\* The synchronous part of deallocateBlock (script.js 457-473) and the
\* setTimeout it leaves behind.
DeallocateBlock(s, blockIndex, isAutomatic) ==
    LET block == s.memoryBlocks[blockIndex]
        tag   == IF block.oid # 0 THEN block.oid ELSE FreshOid(s)
        pidx  == FindIndexId(s.processQueue, block.processId)
    IN  IF ~block.isAllocated THEN s
        ELSE Normalize([s EXCEPT
               !.memoryBlocks[blockIndex].oid = tag,
               !.processQueue = IF pidx = 0 THEN @
                                ELSE [@ EXCEPT ![pidx].status = "terminated",
                                               ![pidx].allocatedAt = 0],
               !.deallocTimers = Append(@, [blk |-> tag, proc |-> pidx,
                                            isAutomatic |-> isAutomatic])])

\* The for loop of retryFailedProcesses over the failed processes from
\* queue position i on: the first one with a fit is promoted and its
\* allocation is left to a setTimeout(..., 300).
RECURSIVE RetryScan(_, _)
RetryScan(s, i) ==
    IF i > Len(s.processQueue) THEN [s EXCEPT !.isRetrying = FALSE]
    ELSE IF s.processQueue[i].status # "failed" THEN RetryScan(s, i + 1)
    ELSE LET blockIndex == FindFit(s.currentAlgorithm, s.memoryBlocks,
                                   s.processQueue[i].size)
             processIndex == FindIndexId(s.processQueue, s.processQueue[i].id)
         IN  IF blockIndex # 0 /\ processIndex # 0
             THEN [s EXCEPT
                     !.isRetrying = TRUE,
                     !.processQueue[i].status = "waiting",
                     !.retryAllocTimers =
                         Append(@, [blockIndex |-> blockIndex,
                                    processIndex |-> processIndex])]
             ELSE RetryScan(s, i + 1)

\* Variant: a sweep that promotes no failed process.
RetryFailedProcessesIdle(s) == s

RetryFailedProcesses(s) ==
    IF s.isPaused \/ s.isRetrying THEN s
    ELSE IF ~SomeStatus(s.processQueue, "failed") THEN s
    ELSE RetryScan(s, 1)

\* The callback of the setTimeout in deallocateBlock (script.js 476-500).
FreeObject(blocks, tag) ==
    [i \in 1..Len(blocks) |->
       IF tag # 0 /\ blocks[i].oid = tag
       THEN [blocks[i] EXCEPT !.isAllocated = FALSE, !.processId = 0]
       ELSE blocks[i]]

DeallocTimeout(s) ==
    LET t  == Head(s.deallocTimers)
        s1 == [s EXCEPT
                 !.deallocTimers = Tail(@),
                 !.memoryBlocks = MergeAdjacentFreeBlocks(FreeObject(@, t.blk)),
                 !.processQueue = IF t.proc # 0 /\ t.isAutomatic
                                  THEN [@ EXCEPT ![t.proc].status = "completed"]
                                  ELSE @]
    \* retryFailedProcesses runs on the state the callback has built.
    IN  CHOOSE r \in {RetryFailedProcesses(x) : x \in {Normalize(s1)}} : TRUE

\* The callback of the setTimeout in retryFailedProcesses (script.js 596-601).
\* allocate throws a TypeError, before it writes anything, when the captured
\* index no longer names a block or a process; the rest of the callback is
\* then skipped.
RetryAllocTimeout(s) ==
    LET t  == Head(s.retryAllocTimers)
        s1 == [s EXCEPT !.retryAllocTimers = Tail(@)]
    IN  IF t.blockIndex > Len(s.memoryBlocks) \/ t.processIndex > Len(s.processQueue)
        THEN s1
        ELSE [Allocate(s1, t.blockIndex, t.processIndex) EXCEPT
                !.isRetrying = FALSE, !.retryTimers = @ + 1]

\* The callback of setTimeout(() => retryFailedProcesses(), 500).
RetryTimeout(s) ==
    CHOOSE r \in {RetryFailedProcesses(x) :
                     x \in {[s EXCEPT !.retryTimers = @ - 1]}} : TRUE

\* One pass of the lifetime checker's forEach from block index i on.
RECURSIVE CheckFrom(_, _)
CheckFrom(s, i) ==
    IF i > Len(s.memoryBlocks) THEN s
    ELSE LET block == s.memoryBlocks[i]
             pidx  == FindIndexId(s.processQueue, block.processId)
         IN  IF /\ block.isAllocated
                /\ block.processId # 0
                /\ pidx # 0
                /\ s.processQueue[pidx].allocatedAt # 0
                /\ s.processQueue[pidx].status = "allocated"
                /\ Now - s.processQueue[pidx].allocatedAt
                       >= PROCESS_LIFETIME_MS
             THEN CHOOSE r \in {CheckFrom(x, i + 1) :
                                  x \in {DeallocateBlock(s, i, TRUE)}} : TRUE
             ELSE CheckFrom(s, i + 1)

DeallocationCheck(s) == IF s.isPaused THEN s ELSE CheckFrom(s, 1)

CompactMemory(s) ==
    Normalize([s EXCEPT
       !.memoryBlocks = CompactBlocks(@),
       !.processQueue = [i \in 1..Len(@) |->
            IF @[i].status = "failed" THEN [@[i] EXCEPT !.status = "waiting"]
            ELSE @[i]],
       !.retryTimers = @ + 1])

\* The callback of the setInterval in startAutoRun (script.js 678-707).
AutoRunCallback(s) ==
    LET hasWaiting   == SomeStatus(s.processQueue, "waiting")
        hasFailed    == SomeStatus(s.processQueue, "failed")
        hasAllocated == SomeStatus(s.processQueue, "allocated")
        allDone == \A i \in 1..Len(s.processQueue) :
                      \/ s.processQueue[i].status = "completed"
                      \/ (s.processQueue[i].status = "failed" /\ ~hasAllocated)
    IN  IF s.isPaused THEN s
        ELSE IF hasWaiting THEN StepSimulation(s)
        ELSE IF hasFailed /\ hasAllocated THEN s
        ELSE IF allDone THEN StopAutoRun(s)
        ELSE s

\* setInterval's new id overwrites autoRunInterval; an interval still live
\* under the old id can no longer be cleared.
StartAutoRun(s) ==
    LET s1 == StepSimulation(StartDeallocationChecker(
                 [s EXCEPT !.isAutoRunning = TRUE, !.isPaused = FALSE]))
    IN  [s1 EXCEPT !.autoRunInterval = TRUE,
                   !.orphanInterval = @ \/ s1.autoRunInterval]

\* Variant: endAutoRunAndReset without the merge of the freed blocks.
EndAutoRunAndResetUnmerged(s) ==
    LET s1 == [StopAutoRun(s) EXCEPT !.isPaused = FALSE, !.isRetrying = FALSE]
    IN  Normalize([s1 EXCEPT
          !.memoryBlocks =
              [i \in 1..Len(@) |->
                 IF @[i].isAllocated
                 THEN [@[i] EXCEPT !.isAllocated = FALSE, !.processId = 0]
                 ELSE @[i]],
          !.processQueue = << >>,
          !.deallocTimers = DropProcessRefs(@)])

EndAutoRunAndReset(s) ==
    LET s1 == [StopAutoRun(s) EXCEPT !.isPaused = FALSE, !.isRetrying = FALSE]
    IN  Normalize([s1 EXCEPT
          !.memoryBlocks = MergeAdjacentFreeBlocks(
              [i \in 1..Len(@) |->
                 IF @[i].isAllocated
                 THEN [@[i] EXCEPT !.isAllocated = FALSE, !.processId = 0]
                 ELSE @[i]]),
          !.processQueue = << >>,
          !.deallocTimers = DropProcessRefs(@)])

PauseSimulation(s) ==
    StopDeallocationChecker([s EXCEPT
       !.isPaused = TRUE,
       !.processQueue = [i \in 1..Len(@) |->
            IF @[i].status = "allocated" /\ @[i].allocatedAt # 0
            THEN [@[i] EXCEPT !.elapsedBeforePause =
                                  Now - s.processQueue[i].allocatedAt]
            ELSE @[i]]])

\* Variant: resume clears the snapshot and leaves allocatedAt as it was.
ResumeSimulationKeepStamp(s) ==
    IF ~s.isPaused THEN s
    ELSE StartDeallocationChecker([s EXCEPT
       !.processQueue = [i \in 1..Len(@) |->
            [@[i] EXCEPT !.elapsedBeforePause = -1]],
       !.isPaused = FALSE])

ResumeSimulation(s) ==
    IF ~s.isPaused THEN s
    ELSE StartDeallocationChecker([s EXCEPT
       !.processQueue = [i \in 1..Len(@) |->
            IF /\ @[i].status = "allocated"
               /\ @[i].allocatedAt # 0
               /\ @[i].elapsedBeforePause # -1
            THEN [@[i] EXCEPT !.allocatedAt =
                                  Now - s.processQueue[i].elapsedBeforePause,
                              !.elapsedBeforePause = -1]
            ELSE @[i]],
       !.isPaused = FALSE])

TogglePauseHandler(s) ==
    IF s.isPaused THEN ResumeSimulation(s) ELSE PauseSimulation(s)

\* Variant: toggleAutoRun without the test for an edited configuration.
ToggleAutoRunHandlerUnchecked(s) ==
    IF s.isPaused THEN ResumeSimulation(s)
    ELSE IF s.isAutoRunning THEN EndAutoRunAndReset(s)
    ELSE StartAutoRun(s)

ToggleAutoRunHandler(s) ==
    IF s.configDirty /\ ~s.resetAlertShown THEN ShowResetAlertOnce(s)
    ELSE IF s.isPaused THEN ResumeSimulation(s)
    ELSE IF s.isAutoRunning THEN EndAutoRunAndReset(s)
    ELSE StartAutoRun(s)

Older(t) == IF t - TickMs < Now - MaxAge THEN Now - MaxAge ELSE t - TickMs

Elapse(s) ==
    [s EXCEPT !.processQueue = [i \in 1..Len(@) |->
        IF @[i].allocatedAt = 0 THEN @[i]
        ELSE [@[i] EXCEPT !.allocatedAt = Older(@)]]]

MarkDirty(s) == [s EXCEPT !.configDirty = TRUE, !.resetAlertShown = FALSE]

\* resetSimulation reading the input values cfg.
ResetSimulation(s, cfg) ==
    LET s1 == [StopDeallocationChecker(StopAutoRun(s)) EXCEPT
                 !.isPaused = FALSE, !.isRetrying = FALSE,
                 !.configDirty = FALSE, !.resetAlertShown = FALSE]
        usedMem == SumSeq(cfg.blocks)
        initial == [i \in 1..Len(cfg.blocks) |-> MemoryBlock(cfg.blocks[i])]
    IN  Normalize([s1 EXCEPT
          !.memoryBlocks = IF cfg.totalMem > usedMem
                           THEN Append(initial, MemoryBlock(cfg.totalMem - usedMem))
                           ELSE initial,
          !.processQueue = [i \in 1..Len(cfg.processes) |->
                               Process(i, cfg.processes[i])],
          !.deallocTimers = DropProcessRefs(@),
          !.config = cfg])

----------------------------------------------------------------------------
(* Inputs *)

\* The input values a reset may read: total memory, initial block sizes and
\* process sizes.  The last one asks for more block memory than the total.
Configs ==
    { [totalMem |-> 4, blocks |-> << 2, 2 >>, processes |-> << 3, 2 >>],
      [totalMem |-> 5, blocks |-> << 1, 3 >>, processes |-> << 2, 2 >>],
      [totalMem |-> 3, blocks |-> << 2, 2 >>, processes |-> << 3 >>] }

NoFn == [op |-> "none"]

----------------------------------------------------------------------------
(* The state machine *)

\* The state before init() runs (script.js 2-12).
Blank ==
    [memoryBlocks |-> << >>, processQueue |-> << >>, isAutoRunning |-> FALSE,
     isPaused |-> FALSE, isRetrying |-> FALSE,
     autoRunInterval |-> FALSE, deallocationInterval |-> FALSE,
     currentAlgorithm |-> "first-fit", configDirty |-> FALSE,
     resetAlertShown |-> FALSE, orphanInterval |-> FALSE,
     deallocTimers |-> << >>, retryAllocTimers |-> << >>, retryTimers |-> 0,
     config |-> [totalMem |-> 0, blocks |-> << >>, processes |-> << >>]]

IsState(s) ==
    /\ memoryBlocks = s.memoryBlocks
    /\ processQueue = s.processQueue
    /\ isAutoRunning = s.isAutoRunning
    /\ isPaused = s.isPaused
    /\ isRetrying = s.isRetrying
    /\ autoRunInterval = s.autoRunInterval
    /\ deallocationInterval = s.deallocationInterval
    /\ currentAlgorithm = s.currentAlgorithm
    /\ configDirty = s.configDirty
    /\ resetAlertShown = s.resetAlertShown
    /\ orphanInterval = s.orphanInterval
    /\ deallocTimers = s.deallocTimers
    /\ retryAllocTimers = s.retryAllocTimers
    /\ retryTimers = s.retryTimers
    /\ config = s.config

\* init(): resetSimulation on the page's input values.
Init ==
    /\ fn = NoFn
    /\ \E cfg \in Configs, alg \in Algorithms :
         IsState(ResetSimulation([Blank EXCEPT !.currentAlgorithm = alg], cfg))

Do(s) == \E x \in {s} : Bounded(x) /\ Install(x)

\* TickMs of time pass.
Tick == Do(Elapse(S))

\* No timeout is pending.
Quiet ==
    /\ deallocTimers = << >>
    /\ retryAllocTimers = << >>
    /\ retryTimers = 0

\* The configuration is edited and applied with a click on Reset, at a
\* moment when no timeout is pending: the select's change handler
\* (script.js 69-72) sets currentAlgorithm, the edits set configDirty
\* (script.js 80-87), and resetSimulation reads the new values.
Reset ==
    /\ Quiet
    /\ \E cfg \in Configs, alg \in Algorithms :
         Do(ResetSimulation(MarkDirty([S EXCEPT !.currentAlgorithm = alg]), cfg))

\* Click on Stop / Continue.
TogglePause == Do(TogglePauseHandler(S))

\* Click on Auto Run / End Auto Run.
ToggleAutoRun == Do(ToggleAutoRunHandler(S))

\* Click on Compact.
Compact == Do(CompactMemory(S))

\* Click on an allocated block (script.js 246-249).
ManualDeallocate ==
    \E i \in 1..Len(memoryBlocks) :
        /\ memoryBlocks[i].isAllocated
        /\ Do(DeallocateBlock(S, i, FALSE))

\* The algorithm select changes and no reset follows (script.js 69-72 and
\* 80-84).
ChangeAlgorithm ==
    \E alg \in Algorithms \ {currentAlgorithm} :
        Do(MarkDirty([S EXCEPT !.currentAlgorithm = alg]))

\* A text field is edited and no reset follows (script.js 80-87).
EditConfig == Do(MarkDirty(S))

\* The auto-run interval fires.
AutoRunTick ==
    /\ autoRunInterval \/ orphanInterval
    /\ Do(AutoRunCallback(S))

\* The lifetime checker's interval fires.
LifetimeCheck ==
    /\ deallocationInterval
    /\ Do(DeallocationCheck(S))

\* The oldest deallocation timeout fires.
DeallocComplete ==
    /\ deallocTimers # << >>
    /\ Do(DeallocTimeout(S))

\* The oldest delayed retry allocation fires.
RetryAllocate ==
    /\ retryAllocTimers # << >>
    /\ Do(RetryAllocTimeout(S))

\* The oldest delayed retry sweep fires.
RetrySweep ==
    /\ retryTimers > 0
    /\ Do(RetryTimeout(S))

Next ==
    \/ Tick
    \/ Reset
    \/ TogglePause
    \/ ToggleAutoRun
    \/ Compact
    \/ ManualDeallocate
    \/ AutoRunTick
    \/ LifetimeCheck
    \/ DeallocComplete
    \/ RetryAllocate
    \/ RetrySweep

Spec == Init /\ [][Next]_vars

----------------------------------------------------------------------------
(* The engine with the configuration panel used during a run: the edits    *)
(* are not followed by a reset.                                            *)

NextEdit ==
    \/ Next
    \/ ChangeAlgorithm
    \/ EditConfig

SpecEdit == Init /\ [][NextEdit]_vars

----------------------------------------------------------------------------
(* SpecPause: one run from the page's first configuration, neither reset   *)
(* nor compacted, with time passing in steps of a fraction of the          *)
(* lifetime, so that a process is paused and resumed part-way through it.  *)

\* Time passes in steps of ShortTickMs.
LifetimeParts == 2

ShortTickMs == PROCESS_LIFETIME_MS \div LifetimeParts

OlderBy(t, d) == IF t - d < Now - MaxAge THEN Now - MaxAge ELSE t - d

ElapseBy(s, d) ==
    [s EXCEPT !.processQueue = [i \in 1..Len(@) |->
        IF @[i].allocatedAt = 0 THEN @[i]
        ELSE [@[i] EXCEPT !.allocatedAt = OlderBy(@, d)]]]

PauseConfig == [totalMem |-> 5, blocks |-> << 1, 3 >>, processes |-> << 2, 2 >>]

InitPause ==
    /\ fn = NoFn
    /\ IsState(ResetSimulation(Blank, PauseConfig))

\* ShortTickMs of time pass.
ShortTick == Do(ElapseBy(S, ShortTickMs))

NextPause ==
    \/ ShortTick
    \/ TogglePause
    \/ ToggleAutoRun
    \/ ManualDeallocate
    \/ AutoRunTick
    \/ LifetimeCheck
    \/ DeallocComplete
    \/ RetryAllocate
    \/ RetrySweep

SpecPause == InitPause /\ [][NextPause]_vars

----------------------------------------------------------------------------
(* SpecSweep: one run in which three processes of two units compete for    *)
(* two blocks of two units, so that a process fails while two others hold  *)
(* memory.                                                                 *)

SweepConfig == [totalMem |-> 4, blocks |-> << 2, 2 >>, processes |-> << 2, 2, 2 >>]

InitSweep ==
    /\ fn = NoFn
    /\ IsState(ResetSimulation(Blank, SweepConfig))

SpecSweep == InitSweep /\ [][NextPause]_vars

----------------------------------------------------------------------------
(* SpecRetryLive: one auto-run from the page's first configuration in      *)
(* which the user clicks one allocated block and may pause while its       *)
(* deallocation is pending; after that only Continue is clicked.  Every    *)
(* armed timeout and interval eventually fires, time passes, and a paused  *)
(* simulation is eventually resumed.                                       *)

\* Click on Auto Run before anything has run.
StartRun ==
    /\ ~isAutoRunning
    /\ ~isPaused
    /\ \A i \in 1..Len(processQueue) : processQueue[i].status = "waiting"
    /\ Do(ToggleAutoRunHandler(S))

\* The first click on an allocated block.
ClickFirst ==
    /\ deallocTimers = << >>
    /\ \A i \in 1..Len(processQueue) :
          processQueue[i].status \notin {"terminated", "completed"}
    /\ ManualDeallocate

\* Click on Stop while a deallocation is pending.
PauseDuringDeallocation ==
    /\ ~isPaused
    /\ deallocTimers # << >>
    /\ TogglePause

\* Click on Continue.
Resume ==
    /\ isPaused
    /\ TogglePause

NextRetryLive ==
    \/ ShortTick
    \/ StartRun
    \/ ClickFirst
    \/ PauseDuringDeallocation
    \/ Resume
    \/ AutoRunTick
    \/ LifetimeCheck
    \/ DeallocComplete
    \/ RetryAllocate
    \/ RetrySweep

\* setTimeout callbacks run once their delay has passed and setInterval
\* callbacks keep running while the interval is armed.
TimersFire ==
    /\ WF_vars(ShortTick)
    /\ WF_vars(AutoRunTick)
    /\ WF_vars(LifetimeCheck)
    /\ WF_vars(DeallocComplete)
    /\ WF_vars(RetryAllocate)
    /\ WF_vars(RetrySweep)

SpecRetryLive ==
    InitPause /\ [][NextRetryLive]_vars /\ TimersFire /\ WF_vars(Resume)

----------------------------------------------------------------------------
(* SpecCompactLive: one auto-run, from the page's first configuration or   *)
(* from one whose single process fits in no installed block, in which the  *)
(* user clicks Compact while some process is failed and nothing else.      *)
(* Every armed timeout and interval eventually fires and time passes.      *)

CompactConfigs ==
    {PauseConfig, [totalMem |-> 3, blocks |-> << 2, 2 >>, processes |-> << 3 >>]}

InitCompact ==
    /\ fn = NoFn
    /\ \E cfg \in CompactConfigs : IsState(ResetSimulation(Blank, cfg))

\* Click on Compact while some process is failed.
CompactFailed ==
    /\ SomeStatus(processQueue, "failed")
    /\ Compact

NextCompactLive ==
    \/ ShortTick
    \/ StartRun
    \/ CompactFailed
    \/ AutoRunTick
    \/ LifetimeCheck
    \/ DeallocComplete
    \/ RetryAllocate
    \/ RetrySweep

SpecCompactLive == InitCompact /\ [][NextCompactLive]_vars /\ TimersFire

----------------------------------------------------------------------------
(* SpecAutoLive: a reset followed by one auto-run that the user leaves     *)
(* alone.  Every armed timeout and interval eventually fires and time      *)
(* passes.                                                                 *)

AutoConfigs == Configs \cup {PauseConfig, SweepConfig}

InitAuto ==
    /\ fn = NoFn
    /\ \E cfg \in AutoConfigs, alg \in Algorithms :
         IsState(ResetSimulation([Blank EXCEPT !.currentAlgorithm = alg], cfg))

\* ShortTickMs of time pass.  Every setTimeout delay (300, 400, 500 ms) is
\* shorter, so no timeout is still pending when they have passed.
TimePasses ==
    /\ Quiet
    /\ ShortTick

NextAutoLive ==
    \/ TimePasses
    \/ StartRun
    \/ AutoRunTick
    \/ LifetimeCheck
    \/ DeallocComplete
    \/ RetryAllocate
    \/ RetrySweep

SpecAutoLive ==
    /\ InitAuto
    /\ [][NextAutoLive]_vars
    /\ WF_vars(TimePasses)
    /\ WF_vars(AutoRunTick)
    /\ WF_vars(LifetimeCheck)
    /\ WF_vars(DeallocComplete)
    /\ WF_vars(RetryAllocate)
    /\ WF_vars(RetrySweep)

----------------------------------------------------------------------------
(* SpecStale: one run from the page's first configuration during which the *)
(* configuration panel is edited, with or without a reset afterwards.      *)

\* Click on Reset after an edit, at a moment when no timeout is pending; the
\* text fields hold the values they held at the last reset and the select
\* holds currentAlgorithm.
ApplyEdit ==
    /\ Quiet
    /\ configDirty
    /\ Do(ResetSimulation(S, config))

NextStale ==
    \/ Tick
    \/ TogglePause
    \/ ToggleAutoRun
    \/ ManualDeallocate
    \/ AutoRunTick
    \/ LifetimeCheck
    \/ DeallocComplete
    \/ RetryAllocate
    \/ RetrySweep
    \/ ChangeAlgorithm
    \/ EditConfig
    \/ ApplyEdit

SpecStale == InitPause /\ [][NextStale]_vars

----------------------------------------------------------------------------
(* SpecStep: stepSimulation applied once, during auto-run, to every         *)
(* registry of at most StepMaxProcs processes in any combination of        *)
(* statuses.  Memory is as compaction leaves it: the blocks of the         *)
(* allocated processes in registry order, then the free space in one       *)
(* block.                                                                  *)

StepMaxProcs == 3

StepMaxSize == 2

StepMaxFree == 2

Statuses5 == {"waiting", "allocated", "failed", "terminated", "completed"}

StepProcs ==
    { [size |-> sz, status |-> st] : sz \in 1..StepMaxSize, st \in Statuses5 }

StepQueues == UNION { [1..n -> StepProcs] : n \in 0..StepMaxProcs }

\* The registry with the sizes and statuses of q, ids 1..n in order.
StepRegistry(q) ==
    [i \in 1..Len(q) |->
        [Process(i, q[i].size) EXCEPT
            !.status = q[i].status,
            !.allocatedAt = IF q[i].status = "allocated" THEN Now ELSE 0]]

RECURSIVE StepAllocatedBlocks(_, _)
StepAllocatedBlocks(queue, i) ==
    IF i > Len(queue) THEN << >>
    ELSE (IF queue[i].status = "allocated"
          THEN << [MemoryBlock(queue[i].size) EXCEPT
                      !.isAllocated = TRUE, !.processId = queue[i].id] >>
          ELSE << >>) \o StepAllocatedBlocks(queue, i + 1)

StepMemory(queue, free) ==
    StepAllocatedBlocks(queue, 1) \o
    (IF free > 0 THEN << MemoryBlock(free) >> ELSE << >>)

InitStep ==
    /\ fn = [op |-> "input"]
    /\ \E q \in StepQueues, free \in 0..StepMaxFree, alg \in Algorithms :
         IsState([Blank EXCEPT
                    !.processQueue = StepRegistry(q),
                    !.memoryBlocks = StepMemory(StepRegistry(q), free),
                    !.currentAlgorithm = alg,
                    !.isAutoRunning = TRUE,
                    !.autoRunInterval = TRUE,
                    !.deallocationInterval = TRUE])

\* stepSimulation runs; its result is kept beside the state it ran in.
FnStep ==
    /\ fn.op = "input"
    /\ fn' = [op |-> "step", out |-> StepSimulation(S)]
    /\ UNCHANGED << memoryBlocks, processQueue, isAutoRunning, isPaused,
                    isRetrying, autoRunInterval, deallocationInterval,
                    currentAlgorithm, configDirty, resetAlertShown,
                    orphanInterval, deallocTimers, retryAllocTimers,
                    retryTimers, config >>

NextStep == FnStep

SpecStep == InitStep /\ [][NextStep]_vars

----------------------------------------------------------------------------
(* SpecFn: the block-store functions applied to every block sequence of    *)
(* at most FnMaxLen blocks with sizes up to FnMaxSize.                     *)

FnPids == {1, 2}

FnBlockKinds ==
    { MemoryBlock(sz) : sz \in 1..FnMaxSize } \cup
    { [MemoryBlock(sz) EXCEPT !.isAllocated = TRUE, !.processId = p] :
        sz \in 1..FnMaxSize, p \in FnPids }

FnBlockSeqs == UNION { [1..n -> FnBlockKinds] : n \in 0..FnMaxLen }

InitFn ==
    /\ IsState(Blank)
    /\ \E b \in FnBlockSeqs, r \in 1..FnMaxSize :
         fn = [op |-> "input", blocks |-> b, size |-> r]

FnFindFit ==
    /\ fn.op = "input"
    /\ \E alg \in Algorithms :
         fn' = [op |-> "findFit", alg |-> alg, blocks |-> fn.blocks,
                size |-> fn.size, out |-> FindFit(alg, fn.blocks, fn.size)]
    /\ UNCHANGED << memoryBlocks, processQueue, isAutoRunning, isPaused,
                    isRetrying, autoRunInterval, deallocationInterval,
                    currentAlgorithm, configDirty, resetAlertShown,
                    orphanInterval, deallocTimers, retryAllocTimers,
                    retryTimers, config >>

\* allocate on a block a fit algorithm may return: free and large enough.
FnAllocate ==
    /\ fn.op = "input"
    /\ \E i \in 1..Len(fn.blocks), p \in FnPids :
         /\ Qualifies(fn.blocks[i], fn.size)
         /\ fn' = [op |-> "allocate", blocks |-> fn.blocks, index |-> i,
                   process |-> Process(p, fn.size),
                   out |-> AllocateBlocks(fn.blocks, i, Process(p, fn.size))]
    /\ UNCHANGED << memoryBlocks, processQueue, isAutoRunning, isPaused,
                    isRetrying, autoRunInterval, deallocationInterval,
                    currentAlgorithm, configDirty, resetAlertShown,
                    orphanInterval, deallocTimers, retryAllocTimers,
                    retryTimers, config >>

FnMerge ==
    /\ fn.op = "input"
    /\ fn' = [op |-> "merge", blocks |-> fn.blocks,
              out |-> MergeAdjacentFreeBlocks(fn.blocks)]
    /\ UNCHANGED << memoryBlocks, processQueue, isAutoRunning, isPaused,
                    isRetrying, autoRunInterval, deallocationInterval,
                    currentAlgorithm, configDirty, resetAlertShown,
                    orphanInterval, deallocTimers, retryAllocTimers,
                    retryTimers, config >>

FnCompact ==
    /\ fn.op = "input"
    /\ fn' = [op |-> "compact", blocks |-> fn.blocks,
              out |-> CompactBlocks(fn.blocks)]
    /\ UNCHANGED << memoryBlocks, processQueue, isAutoRunning, isPaused,
                    isRetrying, autoRunInterval, deallocationInterval,
                    currentAlgorithm, configDirty, resetAlertShown,
                    orphanInterval, deallocTimers, retryAllocTimers,
                    retryTimers, config >>

NextFn ==
    \/ FnFindFit
    \/ FnAllocate
    \/ FnMerge
    \/ FnCompact

SpecFn == InitFn /\ [][NextFn]_vars

----------------------------------------------------------------------------
(* Properties of the fit algorithms and the block-store functions (SpecFn) *)

\* A block a request of size r may be placed in, as the claims word it.
FreeAndLargeEnough(b, r) == b.isAllocated = FALSE /\ b.size >= r

Fitting(blocks, r) ==
    {j \in 1..Len(blocks) : FreeAndLargeEnough(blocks[j], r)}

\* C4: first-fit selects the lowest index of an unallocated block with
\* size >= request; and every algorithm selects no block exactly when no
\* unallocated block has size >= request.
C4_FirstFitLowestIndex ==
    fn.op = "findFit" =>
        /\ (fn.out = 0) <=> (Fitting(fn.blocks, fn.size) = {})
        /\ fn.out # 0 => fn.out \in 1..Len(fn.blocks)
        /\ (fn.alg = "first-fit" /\ fn.out # 0) =>
              /\ fn.out \in Fitting(fn.blocks, fn.size)
              /\ \A j \in Fitting(fn.blocks, fn.size) : fn.out <= j

\* First-fit passed a free block that is too small and took the first of
\* two fitting blocks, the smaller one.
C4_Witness ==
    /\ fn.op = "findFit"
    /\ fn.alg = "first-fit"
    /\ fn.out = 2
    /\ Len(fn.blocks) = 3
    /\ ~fn.blocks[1].isAllocated /\ fn.blocks[1].size < fn.size
    /\ 3 \in Fitting(fn.blocks, fn.size)
    /\ fn.blocks[3].size > fn.blocks[2].size

\* C5: best-fit selects an unallocated block with size >= request of
\* minimal size among all such blocks, and the lowest index among the
\* blocks of that minimal size.
C5_BestFitSmallestThenFirst ==
    (fn.op = "findFit" /\ fn.alg = "best-fit"
        /\ Fitting(fn.blocks, fn.size) # {}) =>
        /\ fn.out \in Fitting(fn.blocks, fn.size)
        /\ \A j \in Fitting(fn.blocks, fn.size) :
              /\ fn.blocks[fn.out].size <= fn.blocks[j].size
              /\ fn.blocks[j].size = fn.blocks[fn.out].size => fn.out <= j

\* Best-fit passed a larger fitting block and took the first of two
\* smallest fitting blocks, which leave a remainder.
C5_Witness ==
    /\ fn.op = "findFit"
    /\ fn.alg = "best-fit"
    /\ fn.out = 2
    /\ Len(fn.blocks) = 3
    /\ 1 \in Fitting(fn.blocks, fn.size)
    /\ fn.blocks[1].size > fn.blocks[2].size
    /\ 3 \in Fitting(fn.blocks, fn.size)
    /\ fn.blocks[3].size = fn.blocks[2].size
    /\ fn.blocks[2].size > fn.size

\* C6: worst-fit selects an unallocated block with size >= request of
\* maximal size among all such blocks (also when the only fitting blocks
\* have exactly the request's size), and the lowest index among the blocks
\* of that maximal size.
C6_WorstFitLargestThenFirst ==
    (fn.op = "findFit" /\ fn.alg = "worst-fit"
        /\ Fitting(fn.blocks, fn.size) # {}) =>
        /\ fn.out \in Fitting(fn.blocks, fn.size)
        /\ \A j \in Fitting(fn.blocks, fn.size) :
              /\ fn.blocks[fn.out].size >= fn.blocks[j].size
              /\ fn.blocks[j].size = fn.blocks[fn.out].size => fn.out <= j

\* Worst-fit found only blocks of exactly the request's size, two of them,
\* and took the first.
C6_Witness ==
    /\ fn.op = "findFit"
    /\ fn.alg = "worst-fit"
    /\ fn.out = 2
    /\ Fitting(fn.blocks, fn.size) = {2, 3}
    /\ fn.blocks[2].size = fn.size
    /\ fn.blocks[3].size = fn.size
    /\ ~fn.blocks[1].isAllocated

\* C7: allocating a process of size r into the free block of size s at
\* index i.  If s > r, block i is afterwards allocated to the process with
\* size r, a new free block of size s - r sits at index i + 1, and every
\* other block is unchanged and in the same relative order.  If s = r,
\* block i is allocated in place and the sequence keeps its length.
C7_AllocateSplits ==
    fn.op = "allocate" =>
        LET i == fn.index
            r == fn.process.size
            s == fn.blocks[i].size
            n == Len(fn.blocks)
        IN  /\ fn.out[i].isAllocated
            /\ fn.out[i].processId = fn.process.id
            /\ fn.out[i].size = r
            /\ \A j \in 1..(i - 1) : fn.out[j] = fn.blocks[j]
            /\ s > r =>
                  /\ Len(fn.out) = n + 1
                  /\ fn.out[i + 1].isAllocated = FALSE
                  /\ fn.out[i + 1].processId = 0
                  /\ fn.out[i + 1].size = s - r
                  /\ \A j \in (i + 1)..n : fn.out[j + 1] = fn.blocks[j]
            /\ s = r =>
                  /\ Len(fn.out) = n
                  /\ \A j \in (i + 1)..n : fn.out[j] = fn.blocks[j]

\* A block in the middle of the sequence was split.
C7_Witness ==
    /\ fn.op = "allocate"
    /\ fn.index = 2
    /\ Len(fn.blocks) = 3
    /\ fn.blocks[2].size > fn.process.size
    /\ Len(fn.out) = 4
    /\ fn.blocks[1].isAllocated
    /\ ~fn.blocks[3].isAllocated

NoAdjacentFree(blocks) ==
    \A j \in 1..(Len(blocks) - 1) :
        blocks[j].isAllocated \/ blocks[j + 1].isAllocated

\* The allocated blocks of a sequence, in order: size and owner of each.
AllocatedPart(blocks) ==
    LET a == AllocatedOf(blocks)
    IN  [j \in 1..Len(a) |-> << a[j].size, a[j].processId >>]

TotalFree(blocks) == SumSeq(Sizes(FreeOf(blocks)))

\* C8: right after mergeAdjacentFreeBlocks no two adjacent blocks are both
\* free, the allocated blocks have kept size, owner and relative order, and
\* the total free size is unchanged.
C8_MergeLeavesNoAdjacentFree ==
    fn.op = "merge" =>
        /\ NoAdjacentFree(fn.out)
        /\ AllocatedPart(fn.out) = AllocatedPart(fn.blocks)
        /\ TotalFree(fn.out) = TotalFree(fn.blocks)
        /\ \A j \in 1..Len(fn.out) : fn.out[j].isAllocated \/ fn.out[j].processId = 0

\* Two free blocks behind an allocated one became one.
C8_Witness ==
    /\ fn.op = "merge"
    /\ Len(fn.blocks) = 3
    /\ fn.blocks[1].isAllocated
    /\ ~fn.blocks[2].isAllocated
    /\ ~fn.blocks[3].isAllocated
    /\ Len(fn.out) = 2
    /\ fn.out[2].size = fn.blocks[2].size + fn.blocks[3].size

\* The same postcondition where the engine runs the merge: when a
\* deallocation timeout fires and when auto-run is ended.
C8_AfterDeallocationAndEnd ==
    [][ (\/ Len(deallocTimers') < Len(deallocTimers)
         \/ (isAutoRunning /\ ~isAutoRunning' /\ processQueue' = << >>))
        => NoAdjacentFree(memoryBlocks') ]_vars

\* C9: mergeAdjacentFreeBlocks is idempotent: a second run leaves the
\* result of the first unchanged.
C9_MergeIdempotent ==
    fn.op = "merge" => MergeAdjacentFreeBlocks(fn.out) = fn.out

\* The first run merged three free blocks in a row into one.
C9_Witness ==
    /\ fn.op = "merge"
    /\ Len(fn.blocks) = 3
    /\ \A j \in 1..3 : ~fn.blocks[j].isAllocated
    /\ Len(fn.out) = 1

\* C10: compaction replaces the sequence by the previously allocated
\* blocks in their order, sizes and owners unchanged, followed by exactly
\* one free block whose size is the sum of the previously free blocks; the
\* free block is omitted when there was no free space.
C10_CompactGathersFreeSpace ==
    fn.op = "compact" =>
        LET k == Len(AllocatedOf(fn.blocks))
        IN  /\ AllocatedPart(fn.out) = AllocatedPart(fn.blocks)
            /\ \A j \in 1..k : fn.out[j].isAllocated
            /\ IF \E j \in 1..Len(fn.blocks) : ~fn.blocks[j].isAllocated
               THEN /\ Len(fn.out) = k + 1
                    /\ fn.out[k + 1].isAllocated = FALSE
                    /\ fn.out[k + 1].processId = 0
                    /\ fn.out[k + 1].size = TotalFree(fn.blocks)
               ELSE Len(fn.out) = k

\* An allocated block between two free blocks moved to the front, and the
\* two free blocks became one behind it.
C10_Witness ==
    /\ fn.op = "compact"
    /\ Len(fn.blocks) = 3
    /\ ~fn.blocks[1].isAllocated
    /\ fn.blocks[2].isAllocated
    /\ ~fn.blocks[3].isAllocated
    /\ Len(fn.out) = 2
    /\ fn.out[1] = fn.blocks[2]
    /\ fn.out[2].size = fn.blocks[1].size + fn.blocks[3].size

----------------------------------------------------------------------------
(* Properties of the engine (Spec) *)

ValidConfig == SumSeq(config.blocks) <= config.totalMem

\* C1: after a reset whose initial block sizes sum to at most the total
\* memory, the block sizes sum to the configured total memory in every
\* reachable state.
C1_BlockSizesSumToTotal ==
    ValidConfig => SumSeq(Sizes(memoryBlocks)) = config.totalMem

\* A run in which a block was split, a process ran to completion and its
\* block was merged back, and another process holds memory.
C1_Witness ==
    /\ ValidConfig
    /\ \E i \in 1..Len(processQueue) : processQueue[i].status = "completed"
    /\ \E j \in 1..Len(memoryBlocks) : memoryBlocks[j].isAllocated
    /\ \E j \in 1..Len(memoryBlocks) :
          ~memoryBlocks[j].isAllocated /\ memoryBlocks[j].size = 1

BlocksOf(id) ==
    {j \in 1..Len(memoryBlocks) :
        memoryBlocks[j].isAllocated /\ memoryBlocks[j].processId = id}

\* C2: each process with status allocated owns exactly one block, and no
\* two allocated blocks have the same processId.
C2_AllocatedProcessOwnsOneBlock ==
    /\ \A i \in 1..Len(processQueue) :
          processQueue[i].status = "allocated" =>
              Cardinality(BlocksOf(processQueue[i].id)) = 1
    /\ \A j, k \in 1..Len(memoryBlocks) :
          (/\ j # k
           /\ memoryBlocks[j].isAllocated
           /\ memoryBlocks[k].isAllocated) =>
              memoryBlocks[j].processId # memoryBlocks[k].processId

\* A delayed retry allocation fires in this step.
RetryAllocationFires == Len(retryAllocTimers') < Len(retryAllocTimers)

\* What allocate may rely on when the delayed retry allocation calls it: the
\* block at the captured index is free and large enough for the process at
\* the captured index, and that process is not allocated.  (With an index
\* past the end of its array allocate throws before it changes anything.)
RetryAllocationSound ==
    LET t == Head(retryAllocTimers)
    IN  (/\ t.blockIndex <= Len(memoryBlocks)
         /\ t.processIndex <= Len(processQueue)) =>
        /\ FreeAndLargeEnough(memoryBlocks[t.blockIndex],
                              processQueue[t.processIndex].size)
        /\ processQueue[t.processIndex].status # "allocated"

\* Whatever step makes a process allocated puts it into a block that was
\* free and large enough before the step.
NewAllocationsSound ==
    \A i \in 1..Len(processQueue) :
        (/\ i <= Len(processQueue')
         /\ processQueue[i].status # "allocated"
         /\ processQueue'[i].status = "allocated") =>
            \E j \in 1..Len(memoryBlocks) :
                /\ FreeAndLargeEnough(memoryBlocks[j], processQueue[i].size)
                /\ memoryBlocks'[j].isAllocated
                /\ memoryBlocks'[j].processId = processQueue[i].id

\* C3: whenever allocate is applied, by a step or by the retry sweep's
\* delayed allocation, the chosen block is free and at least as large as
\* the request at that moment and the process is not already allocated; and
\* at most one retry allocation is pending at any time.
C3_NoDoubleAllocation ==
    /\ [][ /\ RetryAllocationFires => RetryAllocationSound
           /\ NewAllocationsSound ]_vars
    /\ [](Len(retryAllocTimers) <= 1)

----------------------------------------------------------------------------
(* Pause and resume (SpecPause) *)

Allocated(queue, i) ==
    /\ i <= Len(queue)
    /\ queue[i].status = "allocated"
    /\ queue[i].allocatedAt # 0

\* Remaining lifetime of process i of queue, read at the moment Now.
Remaining(queue, i) == PROCESS_LIFETIME_MS - (Now - queue[i].allocatedAt)

\* The step is a pause: the remaining lifetime measured at the pause is kept
\* with the process as lifetime minus its snapshot.
PauseStep == ~isPaused /\ isPaused'

PauseMeasures ==
    \A i \in 1..Len(processQueue) :
        Allocated(processQueue, i) =>
            PROCESS_LIFETIME_MS - processQueue'[i].elapsedBeforePause
                = Remaining(processQueue, i)

\* While the pause lasts the measurement of a process that stays allocated
\* is not touched, however much time passes.
PauseKeeps ==
    (isPaused /\ isPaused') =>
        \A i \in 1..Len(processQueue) :
            (/\ Allocated(processQueue, i)
             /\ Allocated(processQueue', i)
             /\ processQueue[i].elapsedBeforePause # -1) =>
                processQueue'[i].elapsedBeforePause
                    = processQueue[i].elapsedBeforePause

\* The step is a resume: a process allocated at the pause and still
\* allocated has, right after the resume, the remaining lifetime measured
\* at the pause.
ResumeRestores ==
    (isPaused /\ ~isPaused') =>
        \A i \in 1..Len(processQueue) :
            (/\ Allocated(processQueue, i)
             /\ Allocated(processQueue', i)
             /\ processQueue[i].elapsedBeforePause # -1) =>
                Remaining(processQueue', i)
                    = PROCESS_LIFETIME_MS - processQueue[i].elapsedBeforePause

\* C11: pause followed by resume preserves the remaining lifetime exactly:
\* for a process allocated at the pause and still allocated at the resume,
\* lifetime - (resumeTime - allocatedAt) right after the resume equals
\* lifetime - (pauseTime - allocatedAt) at the pause, whatever the length
\* of the pause.
C11_PauseResumeKeepsRemaining ==
    [][ /\ PauseStep => PauseMeasures
        /\ PauseKeeps
        /\ ResumeRestores ]_vars

\* Paused part-way through a lifetime, with the clock having run on since:
\* by the stored time stamp alone the lifetime would be over.
C11_Witness ==
    /\ isPaused
    /\ \E i \in 1..Len(processQueue) :
          /\ Allocated(processQueue, i)
          /\ processQueue[i].elapsedBeforePause > 0
          /\ processQueue[i].elapsedBeforePause < PROCESS_LIFETIME_MS
          /\ Now - processQueue[i].allocatedAt >= PROCESS_LIFETIME_MS

----------------------------------------------------------------------------
(* Process life cycle (Spec) *)

\* The edges of the status graph.
StatusEdges ==
    { << "waiting", "allocated" >>, << "waiting", "failed" >>,
      << "failed", "waiting" >>, << "allocated", "terminated" >>,
      << "terminated", "completed" >> }

\* What one handler may do to the status of a process: nothing, one edge,
\* or the two edges failed -> waiting -> allocated that a step takes when
\* it retries a failed process and finds it a block.
StatusMoves ==
    StatusEdges \cup { << "failed", "allocated" >> }

\* The registry after the step still holds the process objects it held
\* before: the step is neither a reset nor the end of auto-run.
SameRegistry ==
    /\ ~Reset
    /\ Len(processQueue') = Len(processQueue)

\* C12: every status change of a process in the registry is one of
\* waiting->allocated, waiting->failed, failed->waiting,
\* allocated->terminated, terminated->completed; failed->waiting is the only
\* back-edge, and a completed process never changes status again.
C12_StatusTransitions ==
    [][ SameRegistry =>
          \A i \in 1..Len(processQueue) :
              \/ processQueue'[i].status = processQueue[i].status
              \/ << processQueue[i].status, processQueue'[i].status >>
                     \in StatusMoves ]_vars

----------------------------------------------------------------------------
(* Pause (Spec) *)

\* What the program reads of a block.
Visible(blocks) ==
    [i \in 1..Len(blocks) |->
        [size |-> blocks[i].size, isAllocated |-> blocks[i].isAllocated,
         processId |-> blocks[i].processId]]

Statuses(queue) == [i \in 1..Len(queue) |-> queue[i].status]

\* A timer callback runs: the auto-run interval, the lifetime checker, a
\* delayed retry sweep or a delayed retry allocation.
TimerDriven ==
    \/ AutoRunTick
    \/ LifetimeCheck
    \/ RetrySweep
    \/ RetryAllocate

\* C13: while the simulation is paused, timer-driven activity is inert: no
\* auto-run tick, lifetime check, retry sweep or delayed retry allocation
\* changes any block or any process status between pause and resume.
C13_PausedIsInert ==
    [][ (isPaused /\ TimerDriven) =>
          /\ Visible(memoryBlocks') = Visible(memoryBlocks)
          /\ Statuses(processQueue') = Statuses(processQueue) ]_vars

----------------------------------------------------------------------------
(* Configuration (Spec) *)

\* C14: a reset whose total memory is smaller than the sum of the given
\* initial block sizes fails with a configuration error and starts no
\* simulation: no block store whose sizes sum to more than the total memory
\* is ever installed.
C14_NoOverCommittedStore ==
    SumSeq(Sizes(memoryBlocks)) <= config.totalMem

----------------------------------------------------------------------------
(* Edited configuration (SpecStale) *)

\* The configuration was edited after the last reset and the warning has
\* not been shown since.
Stale == configDirty /\ ~resetAlertShown

\* The auto-run interval fires and its callback calls stepSimulation.
StepByTick ==
    /\ ~isPaused
    /\ SomeStatus(processQueue, "waiting")
    /\ AutoRunTick

\* Nothing but the warning-shown flag changes, and that flag is set.
OnlyWarningShown ==
    /\ resetAlertShown'
    /\ UNCHANGED << memoryBlocks, processQueue, isAutoRunning, isPaused,
                    isRetrying, autoRunInterval, deallocationInterval,
                    currentAlgorithm, configDirty, orphanInterval,
                    deallocTimers, retryAllocTimers, retryTimers, config >>

\* C15: when the configuration has been edited since the last reset and the
\* warning has not yet been acknowledged, a step or an auto-run toggle is
\* refused: the block sequence, every process status, the auto-run flag and
\* the timers are left unchanged, and only the warning-shown flag is set.
C15_StaleConfigRefused ==
    [][ (Stale /\ (ToggleAutoRun \/ StepByTick)) => OnlyWarningShown ]_vars

\* The warning has been shown, so a step or a toggle was refused, in a run
\* that had a process to place and a tick armed.
C15_Witness ==
    /\ configDirty
    /\ resetAlertShown
    /\ isAutoRunning
    /\ autoRunInterval
    /\ ~isPaused
    /\ SomeStatus(processQueue, "waiting")

----------------------------------------------------------------------------
(* Deallocation (Spec) *)

Expired(queue, i) ==
    /\ Allocated(queue, i)
    /\ Now - queue[i].allocatedAt >= PROCESS_LIFETIME_MS

\* The lifetime checker is armed and the simulation is not paused: when the
\* checker's callback runs, every allocated process whose lifetime is over
\* becomes terminated.
ExpiredAreTerminated ==
    (deallocationInterval /\ ~isPaused) =>
        \A i \in 1..Len(processQueue) :
            Expired(processQueue, i) =>
                DeallocationCheck(S).processQueue[i].status = "terminated"

\* The timeout of an automatic deallocation fires: the process it was set
\* for, if still in the registry, is completed and holds no block.
AutomaticCompletes ==
    (/\ deallocTimers # << >>
     /\ Head(deallocTimers).isAutomatic
     /\ Head(deallocTimers).proc # 0
     /\ DeallocComplete) =>
        LET p == Head(deallocTimers).proc
        IN  /\ processQueue'[p].status = "completed"
            /\ \A j \in 1..Len(memoryBlocks') :
                  ~(/\ memoryBlocks'[j].isAllocated
                    /\ memoryBlocks'[j].processId = processQueue[p].id)

\* C16: with the lifetime checker running and the simulation not paused,
\* every allocated process whose elapsed time reaches its lifetime is
\* automatically deallocated: it becomes terminated, and after the
\* deallocation delay its block is free and the process is completed.
C16_ExpiredIsDeallocated ==
    /\ []ExpiredAreTerminated
    /\ [][AutomaticCompletes]_vars


\* Process i is terminated and no automatic deallocation is pending for it:
\* its block was deallocated by a click, not by the lifetime checker.
ManuallyTerminated(i) ==
    /\ processQueue[i].status = "terminated"
    /\ \A k \in 1..Len(deallocTimers) :
          ~(deallocTimers[k].isAutomatic /\ deallocTimers[k].proc = i)

StaysTerminated ==
    SameRegistry =>
        \A i \in 1..Len(processQueue) :
            ManuallyTerminated(i) => processQueue'[i].status = "terminated"

\* The timeout of a manual deallocation fires: the process it was set for
\* holds no block.
ManualFrees ==
    (/\ deallocTimers # << >>
     /\ ~Head(deallocTimers).isAutomatic
     /\ Head(deallocTimers).proc # 0
     /\ DeallocComplete) =>
        \A j \in 1..Len(memoryBlocks') :
            ~(/\ memoryBlocks'[j].isAllocated
              /\ memoryBlocks'[j].processId
                     = processQueue[Head(deallocTimers).proc].id)

\* C17: a process whose block is deallocated manually becomes terminated and
\* never reaches completed, and it is never allocated again; its block is
\* free after the deallocation delay.
C17_ManualStaysTerminated ==
    [][ StaysTerminated /\ ManualFrees ]_vars

----------------------------------------------------------------------------
(* Auto-run (Spec) *)

\* C18: stopping auto-run cancels the periodic tick and the lifetime
\* checker: in every reachable state in which auto-run is not active, no
\* auto-run tick and no lifetime checker is armed.
C18_StoppedMeansNothingArmed ==
    ~isAutoRunning =>
        /\ ~autoRunInterval
        /\ ~orphanInterval
        /\ ~deallocationInterval


\* The click on End Auto Run: toggleAutoRun reaches endAutoRunAndReset.
EndStep ==
    /\ isAutoRunning
    /\ ~isPaused
    /\ ~Stale
    /\ ToggleAutoRun

NothingAllocated(blocks) == \A j \in 1..Len(blocks) : ~blocks[j].isAllocated

\* The block sequence a reset installs for the configuration cfg.
Installed(cfg) == ResetSimulation(Blank, cfg).memoryBlocks

----------------------------------------------------------------------------
(* The step (SpecStep) *)

WithStatus(st) == {i \in 1..Len(processQueue) : processQueue[i].status = st}

LowestId(set) ==
    CHOOSE i \in set :
        \A j \in set : processQueue[i].id <= processQueue[j].id

\* The process a step is to attempt: the lowest-id waiting process, or the
\* lowest-id failed process when none is waiting; 0 when there is neither.
Candidate ==
    IF WithStatus("waiting") # {} THEN LowestId(WithStatus("waiting"))
    ELSE IF WithStatus("failed") # {} THEN LowestId(WithStatus("failed"))
    ELSE 0

\* C20: a step selects as candidate the lowest-id process with status
\* waiting; only when no process is waiting does it select the lowest-id
\* failed process, which it promotes to waiting before attempting
\* allocation; at most one process is attempted per step.
C20_StepCandidate ==
    fn.op = "step" =>
        LET out == fn.out
        IN  /\ Len(out.processQueue) = Len(processQueue)
            /\ \A i \in 1..Len(processQueue) :
                  i # Candidate => out.processQueue[i] = processQueue[i]
            /\ Candidate # 0 =>
                  /\ out.processQueue[Candidate].status
                         \in {"allocated", "failed"}
                  /\ (out.processQueue[Candidate].status = "allocated") <=>
                         (Fitting(memoryBlocks,
                                  processQueue[Candidate].size) # {})
            /\ \A j \in 1..Len(out.memoryBlocks) :
                  (/\ out.memoryBlocks[j].isAllocated
                   /\ out.memoryBlocks[j] \notin
                          {memoryBlocks[k] : k \in 1..Len(memoryBlocks)}) =>
                      /\ Candidate # 0
                      /\ out.memoryBlocks[j].processId
                             = processQueue[Candidate].id

\* No process is waiting, two are failed and either would fit: the step
\* has allocated the one with the lower id and left the other failed.
C20_Witness ==
    /\ fn.op = "step"
    /\ WithStatus("waiting") = {}
    /\ Cardinality(WithStatus("failed")) >= 2
    /\ \A i \in WithStatus("failed") :
          Fitting(memoryBlocks, processQueue[i].size) # {}
    /\ fn.out.processQueue[Candidate].status = "allocated"
    /\ \E i \in WithStatus("failed") :
          fn.out.processQueue[i].status = "failed"

\* C21: when a step finds no fitting block for its candidate, the
\* candidate's status becomes failed and nothing else changes: the block
\* sequence (sizes, flags, owners, order), every other process's status and
\* the auto-run state are unchanged, and the run continues.
C21_StepFailureOnlyMarksCandidate ==
    (/\ fn.op = "step"
     /\ Candidate # 0
     /\ Fitting(memoryBlocks, processQueue[Candidate].size) = {}) =>
        LET out == fn.out
        IN  /\ out.processQueue[Candidate].status = "failed"
            /\ out.memoryBlocks = memoryBlocks
            /\ Len(out.processQueue) = Len(processQueue)
            /\ \A i \in 1..Len(processQueue) :
                  i # Candidate =>
                      out.processQueue[i].status = processQueue[i].status
            /\ out.isAutoRunning = isAutoRunning
            /\ out.autoRunInterval = autoRunInterval
            /\ out.orphanInterval = orphanInterval
            /\ out.deallocationInterval = deallocationInterval
            /\ out.isPaused = isPaused
            /\ out.isAutoRunning /\ out.autoRunInterval
            /\ out = [S EXCEPT !.processQueue[Candidate].status = "failed"]

\* The candidate needs two units and only one is free, while a later
\* waiting process would fit: the step has failed the candidate and left
\* the other process waiting.
C21_Witness ==
    /\ fn.op = "step"
    /\ Candidate # 0
    /\ processQueue[Candidate].status = "waiting"
    /\ Fitting(memoryBlocks, processQueue[Candidate].size) = {}
    /\ \E b \in 1..Len(memoryBlocks) : ~memoryBlocks[b].isAllocated
    /\ \E i \in WithStatus("waiting") :
          /\ i # Candidate
          /\ Fitting(memoryBlocks, processQueue[i].size) # {}
          /\ fn.out.processQueue[i].status = "waiting"
    /\ SomeStatus(processQueue, "allocated")
    /\ fn.out.processQueue[Candidate].status = "failed"

----------------------------------------------------------------------------
(* The retry sweep (SpecSweep) *)

\* The failed processes for which the configured algorithm finds a block.
FailedWithFit ==
    {i \in WithStatus("failed") :
        FindFit(currentAlgorithm, memoryBlocks, processQueue[i].size) # 0}

\* A sweep run now, neither paused nor already retrying, promotes the
\* lowest-id failed process that has a fit, notes the block the algorithm
\* selected for it, and touches no other process and no block.
SweepPromotesLowestFitting ==
    (~isPaused /\ ~isRetrying) =>
        LET out == RetryFailedProcesses(S)
        IN  /\ out.memoryBlocks = memoryBlocks
            /\ IF FailedWithFit = {}
               THEN /\ out.processQueue = processQueue
                    /\ out.retryAllocTimers = retryAllocTimers
               ELSE LET p == LowestId(FailedWithFit)
                    IN  /\ out.processQueue =
                              [processQueue EXCEPT ![p].status = "waiting"]
                        /\ out.retryAllocTimers =
                              Append(retryAllocTimers,
                                     [blockIndex |-> FindFit(currentAlgorithm,
                                                       memoryBlocks,
                                                       processQueue[p].size),
                                      processIndex |-> p])

\* When the sweep's allocation runs for the process it promoted, which is
\* still waiting, the block it noted is still there, free and large enough,
\* and the step allocates that process, and no other, into it.
SweepAllocatesSelected ==
    LET t == Head(retryAllocTimers)
    IN  (/\ RetryAllocationFires
         /\ t.processIndex <= Len(processQueue)
         /\ processQueue[t.processIndex].status = "waiting") =>
            /\ t.blockIndex <= Len(memoryBlocks)
            /\ FreeAndLargeEnough(memoryBlocks[t.blockIndex],
                                  processQueue[t.processIndex].size)
            /\ processQueue'[t.processIndex].status = "allocated"
            /\ memoryBlocks'[t.blockIndex].isAllocated
            /\ memoryBlocks'[t.blockIndex].processId
                   = processQueue[t.processIndex].id
            /\ \A i \in 1..Len(processQueue) :
                  i # t.processIndex =>
                      processQueue'[i].status = processQueue[i].status

\* C22: a retry sweep that is not blocked by the paused or reentrancy flag
\* picks the lowest-id failed process for which the configured fit
\* algorithm finds a block, promotes it to waiting and allocates it into
\* the block the algorithm selected; it allocates at most one process per
\* pass and leaves every failed process that has no fit in status failed.
C22_SweepAllocatesLowestFitting ==
    /\ []SweepPromotesLowestFitting
    /\ [][SweepAllocatesSelected]_vars

----------------------------------------------------------------------------
(* Retry after a deallocation (SpecRetryLive) *)

\* The blocks as the pending deallocation will leave them: the block freed
\* and the free neighbours merged.
FreedAndMerged ==
    MergeAdjacentFreeBlocks(FreeObject(memoryBlocks, Head(deallocTimers).blk))

\* A deallocation is about to complete, the processes of F are the failed
\* ones, and one of them fits in a free block once it has completed.
DeallocationMakesRoom(F) ==
    /\ deallocTimers # << >>
    /\ F # {}
    /\ WithStatus("failed") = F
    /\ \E i \in F :
          FindFit(currentAlgorithm, FreedAndMerged, processQueue[i].size) # 0

SomeAllocated(F) ==
    \E i \in F : i <= Len(processQueue) /\ processQueue[i].status = "allocated"

\* C23: whenever a deallocation completes (block freed and merged) and
\* some failed process fits in a free block, a failed process is
\* eventually allocated without any further user command other than
\* resume; this also holds when the deallocation completes while the
\* simulation is paused and the simulation is later resumed.
C23_DeallocationRetriesFailed ==
    \A F \in SUBSET (1..Len(PauseConfig.processes)) :
        DeallocationMakesRoom(F) ~> SomeAllocated(F)

----------------------------------------------------------------------------
(* Retry after a compaction (SpecCompactLive) *)

\* A compaction run now resets every failed process to waiting, changes no
\* other status and arms its retry sweep.
CompactResetsFailed ==
    LET out == CompactMemory(S)
    IN  /\ Len(out.processQueue) = Len(processQueue)
        /\ \A i \in 1..Len(processQueue) :
              out.processQueue[i].status =
                  IF processQueue[i].status = "failed" THEN "waiting"
                  ELSE processQueue[i].status
        /\ out.retryTimers = retryTimers + 1

\* The sweep armed by a compaction is pending, the processes of W are the
\* waiting ones, and one of them fits in a free block.  (In SpecCompactLive
\* a process is waiting while a sweep is pending only after a compaction
\* that found it failed.)
CompactionSweepPending(W) ==
    /\ retryTimers > 0
    /\ W # {}
    /\ WithStatus("waiting") = W
    /\ \E i \in W :
          FindFit(currentAlgorithm, memoryBlocks, processQueue[i].size) # 0

\* C24: after a compaction, every process that was failed is reset to
\* waiting and is then retried: if such a process fits in the resulting
\* trailing free block, a formerly failed process is eventually allocated
\* without any further user command, whether or not auto-run is active.
C24_CompactionRetriesFailed ==
    /\ []CompactResetsFailed
    /\ \A W \in SUBSET (1..Len(PauseConfig.processes)) :
          CompactionSweepPending(W) ~> SomeAllocated(W)

----------------------------------------------------------------------------
(* The end of an auto-run (SpecRetryLive) *)

\* Auto-run is active and not paused, no process is waiting or allocated,
\* and no deallocation or retry is pending.
NothingLeftToRun ==
    /\ isAutoRunning
    /\ ~isPaused
    /\ \A i \in 1..Len(processQueue) :
          processQueue[i].status \in {"completed", "failed", "terminated"}
    /\ Quiet

AutoRunEnded == ~isAutoRunning /\ ~autoRunInterval /\ ~orphanInterval

\* C25: with auto-run active and not paused, once no process is waiting or
\* allocated and no deallocation or retry is pending (every process is
\* completed, failed or manually terminated), auto-run eventually becomes
\* inactive and its periodic tick stops.
C25_AutoRunEndsWhenNothingLeft == NothingLeftToRun ~> AutoRunEnded

----------------------------------------------------------------------------
(* Starvation freedom (SpecAutoLive) *)

MaxOf(set) == CHOOSE x \in set : \A y \in set : y <= x

\* The size of the largest block the last reset created.
LargestInstalled ==
    MaxOf({0} \cup {Installed(config)[j].size : j \in 1..Len(Installed(config))})

\* The auto-run has been started and process i asks for no more than the
\* largest block the reset created.
Served(i) ==
    /\ i <= Len(processQueue)
    /\ processQueue[i].status # "waiting" \/ isAutoRunning
    /\ processQueue[i].size <= LargestInstalled

ProcessIds == 1..Len(SweepConfig.processes)

StatusOf(i) ==
    IF i <= Len(processQueue) THEN processQueue[i].status ELSE "none"

====
